---- MODULE Spec2Model ----
(***************************************************************************)
(* Bit-level codec (bitutils.c) and the anti-collision responder loop      *)
(* (nfc-emulate-uid.c) of libnfc, as state machines.                       *)
(*                                                                         *)
(*   Spec      the responder: command line, device set-up, the            *)
(*             receive / switch / send loop of main                        *)
(*   SpecBits  mirror, mirror_bytes, oddparity, oddparity_bytes applied    *)
(*             to bounded inputs                                           *)
(*   SpecCrc   append_iso14443a_crc, one action per loop iteration         *)
(***************************************************************************)
EXTENDS Integers, Sequences, FiniteSets

VARIABLES
  \* ---- responder (main) ----
  argv,          \* command line after argv[0]: a sequence of arguments, each a sequence of characters
  pc,            \* position in main: "args", "setup", "recv", "send", "exit", "idle"
  quiet_output,  \* bool quiet_output
  abtUidBcc,     \* byte_t abtUidBcc[5]
  abtRecv,       \* the received bytes (abtRecv, as far as szRecvBits covers them)
  szRecvBits,    \* size_t szRecvBits
  pbtTx,         \* byte_t *pbtTx: "NULL" or the name of the array it points to
  szTxBits,      \* size_t szTxBits (indeterminate until the switch assigns it)
  exitCode,      \* "none" while running, else the argument of exit()
  reported,      \* what was written by ERR / nfc_perror / the connect message, "" if nothing
  trace,         \* history: the transport events of the session, in order
  \* ---- mirror / parity ----
  bt,            \* the byte handed to mirror() / oddparity(), replaced by mirror()'s result
  bt0,           \* history: bt as first given
  ret,           \* history: the last oddparity() call, [arg, val], or NoCall
  buf,           \* the caller's byte buffer (pbts / pbtData)
  buf0,          \* history: buf as first given
  len,           \* the uiLen argument of the buffer functions
  par,           \* the caller's parity buffer (pbtPar)
  par0,          \* history: par as first given
  calls,         \* history: the functions called so far, in order
  \* ---- append_iso14443a_crc ----
  mem,           \* the caller's array that pbtData points into
  mem0,          \* history: mem at the call
  uiLenArg,      \* history: uiLen as passed
  uiLen,         \* ui32 uiLen, kept as <<high 16 bits, low 16 bits>>
  pbtData,       \* byte *pbtData, as an offset from the start of mem
  wCrc,          \* ui32 wCrc
  cpc,           \* position in the function: "loop", "tail", "done", "fault", "idle"
  reads,         \* history: offsets read through pbtData
  writes,        \* history: offsets written through pbtData
  oob            \* history: number of reads past the end of mem

mainVars == <<argv, pc, quiet_output, abtUidBcc, abtRecv, szRecvBits, pbtTx,
              szTxBits, exitCode, reported, trace>>
bitsVars == <<bt, bt0, ret, buf, buf0, len, par, par0, calls>>
crcVars  == <<mem, mem0, uiLenArg, uiLen, pbtData, wCrc, cpc, reads, writes, oob>>
vars     == <<mainVars, bitsVars, crcVars>>

(***************************************************************************)
(* Bounds of the model.                                                    *)
(***************************************************************************)
\* frames received (or failed receives) per session
MaxFrames == 3
\* length of the buffers handed to mirror_bytes / oddparity_bytes
MaxBufLen == 3
\* calls made on one input in SpecBits
MaxCalls == 2
\* uiLen handed to append_iso14443a_crc when the data is drawn from ByteSample
MaxCrcLen == 3
\* reads past the end of the array that are followed before the model stops
MaxOob == 2

\* byte values the longer buffers are filled from
ByteSample == {0, 1, 128, 165, 255}
Byte == 0..255

(***************************************************************************)
(* C's bit operators on naturals.                                          *)
(***************************************************************************)
RECURSIVE Xor(_, _)
Xor(a, b) ==
  IF a = 0 THEN b
  ELSE IF b = 0 THEN a
  ELSE (((a % 2) + (b % 2)) % 2) + 2 * Xor(a \div 2, b \div 2)

RECURSIVE Pow2(_)
Pow2(n) == IF n = 0 THEN 1 ELSE 2 * Pow2(n - 1)

Shl(a, n) == a * Pow2(n)
Shr(a, n) == a \div Pow2(n)
\* the (byte) conversion of a non-negative value
ToByte(a) == a % 256

(***************************************************************************)
(* bitutils.c: the lookup tables, indexed from 1 here and from 0 in C.     *)
(***************************************************************************)
OddParity ==
  <<
     1, 0, 0, 1, 0, 1, 1, 0, 0, 1, 1, 0, 1, 0, 0, 1,
     0, 1, 1, 0, 1, 0, 0, 1, 1, 0, 0, 1, 0, 1, 1, 0,
     0, 1, 1, 0, 1, 0, 0, 1, 1, 0, 0, 1, 0, 1, 1, 0,
     1, 0, 0, 1, 0, 1, 1, 0, 0, 1, 1, 0, 1, 0, 0, 1,
     0, 1, 1, 0, 1, 0, 0, 1, 1, 0, 0, 1, 0, 1, 1, 0,
     1, 0, 0, 1, 0, 1, 1, 0, 0, 1, 1, 0, 1, 0, 0, 1,
     1, 0, 0, 1, 0, 1, 1, 0, 0, 1, 1, 0, 1, 0, 0, 1,
     0, 1, 1, 0, 1, 0, 0, 1, 1, 0, 0, 1, 0, 1, 1, 0,
     0, 1, 1, 0, 1, 0, 0, 1, 1, 0, 0, 1, 0, 1, 1, 0,
     1, 0, 0, 1, 0, 1, 1, 0, 0, 1, 1, 0, 1, 0, 0, 1,
     1, 0, 0, 1, 0, 1, 1, 0, 0, 1, 1, 0, 1, 0, 0, 1,
     0, 1, 1, 0, 1, 0, 0, 1, 1, 0, 0, 1, 0, 1, 1, 0,
     1, 0, 0, 1, 0, 1, 1, 0, 0, 1, 1, 0, 1, 0, 0, 1,
     0, 1, 1, 0, 1, 0, 0, 1, 1, 0, 0, 1, 0, 1, 1, 0,
     0, 1, 1, 0, 1, 0, 0, 1, 1, 0, 0, 1, 0, 1, 1, 0,
     1, 0, 0, 1, 0, 1, 1, 0, 0, 1, 1, 0, 1, 0, 0, 1
  >>

ByteMirror ==
  <<
     0, 128, 64, 192, 32, 160, 96, 224, 16, 144, 80, 208, 48, 176, 112, 240,
     8, 136, 72, 200, 40, 168, 104, 232, 24, 152, 88, 216, 56, 184, 120, 248,
     4, 132, 68, 196, 36, 164, 100, 228, 20, 148, 84, 212, 52, 180, 116, 244,
     12, 140, 76, 204, 44, 172, 108, 236, 28, 156, 92, 220, 60, 188, 124, 252,
     2, 130, 66, 194, 34, 162, 98, 226, 18, 146, 82, 210, 50, 178, 114, 242,
     10, 138, 74, 202, 42, 170, 106, 234, 26, 154, 90, 218, 58, 186, 122, 250,
     6, 134, 70, 198, 38, 166, 102, 230, 22, 150, 86, 214, 54, 182, 118, 246,
     14, 142, 78, 206, 46, 174, 110, 238, 30, 158, 94, 222, 62, 190, 126, 254,
     1, 129, 65, 193, 33, 161, 97, 225, 17, 145, 81, 209, 49, 177, 113, 241,
     9, 137, 73, 201, 41, 169, 105, 233, 25, 153, 89, 217, 57, 185, 121, 249,
     5, 133, 69, 197, 37, 165, 101, 229, 21, 149, 85, 213, 53, 181, 117, 245,
     13, 141, 77, 205, 45, 173, 109, 237, 29, 157, 93, 221, 61, 189, 125, 253,
     3, 131, 67, 195, 35, 163, 99, 227, 19, 147, 83, 211, 51, 179, 115, 243,
     11, 139, 75, 203, 43, 171, 107, 235, 27, 155, 91, 219, 59, 187, 123, 251,
     7, 135, 71, 199, 39, 167, 103, 231, 23, 151, 87, 215, 55, 183, 119, 247,
     15, 143, 79, 207, 47, 175, 111, 239, 31, 159, 95, 223, 63, 191, 127, 255
  >>

oddparity(b) == OddParity[b + 1]

\* a bug: the loop runs one slot too far
oddparity_bytes_over(data, n, pbtPar) ==
  [i \in 1..Len(pbtPar) |-> IF i <= n + 1 THEN OddParity[data[i] + 1] ELSE pbtPar[i]]

\* the parity buffer after oddparity_bytes(pbtData, n, pbtPar)
oddparity_bytes(data, n, pbtPar) ==
  [i \in 1..Len(pbtPar) |-> IF i <= n THEN OddParity[data[i] + 1] ELSE pbtPar[i]]

mirror(b) == ByteMirror[b + 1]

\* a bug: the pointer is not advanced, the first byte is mirrored n times
mirror_bytes_stuck(pbts, n) ==
  [i \in 1..Len(pbts) |->
     IF i = 1 /\ n % 2 = 1 THEN ByteMirror[pbts[i] + 1] ELSE pbts[i]]

\* the buffer after mirror_bytes(pbts, n)
mirror_bytes(pbts, n) ==
  [i \in 1..Len(pbts) |-> IF i <= n THEN ByteMirror[pbts[i] + 1] ELSE pbts[i]]

(***************************************************************************)
(* bitutils.c: append_iso14443a_crc.                                       *)
(***************************************************************************)
wCrcInit == 25443   \* 0x6363

\* a bug: bt held in an int, so bt<<4 keeps its high bits
CrcByte_wide(w, b) ==
  LET b1 == Xor(b, w % 256)
      b2 == Xor(b1, Shl(b1, 4))
  IN  Xor(Xor(Xor(Shr(w, 8), Shl(b2, 8)), Shl(b2, 3)), Shr(b2, 4))

\* one pass of the loop body on the byte b: the new wCrc
CrcByte(w, b) ==
  LET b1 == Xor(b, w % 256)               \* bt = (bt^(byte)(wCrc & 0x00FF))
      b2 == Xor(b1, ToByte(Shl(b1, 4)))   \* bt = (bt^(bt<<4)), stored in a byte
  IN  Xor(Xor(Xor(Shr(w, 8), Shl(b2, 8)), Shl(b2, 3)), Shr(b2, 4))

\* --uiLen on a ui32 held as <<high, low>>: wraps from 0 to 0xFFFFFFFF
Dec32(u) ==
  IF u[2] > 0 THEN <<u[1], u[2] - 1>>
  ELSE IF u[1] > 0 THEN <<u[1] - 1, 65535>>
  ELSE <<65535, 65535>>

RECURSIVE CrcOver(_, _, _, _)
CrcOver(data, n, i, w) ==
  IF i > n THEN w ELSE CrcOver(data, n, i + 1, CrcByte(w, data[i]))

\* the array after append_iso14443a_crc(data, n), for 1 <= n and n + 2 <= Len(data):
\* the do-while body runs once per data byte, then the two stores
append_iso14443a_crc(data, n) ==
  LET w == CrcOver(data, n, 1, wCrcInit)
  IN  [i \in 1..Len(data) |->
         IF i = n + 1 THEN w % 256
         ELSE IF i = n + 2 THEN Shr(w, 8) % 256
         ELSE data[i]]

(***************************************************************************)
(* Values of the variables a specification does not use.                   *)
(***************************************************************************)
NoCall == [arg |-> 0, val |-> 0, called |-> FALSE]

MainIdle ==
  /\ argv = <<>> /\ pc = "idle" /\ quiet_output = FALSE
  /\ abtUidBcc = <<>> /\ abtRecv = <<>> /\ szRecvBits = 0
  /\ pbtTx = "NULL" /\ szTxBits = 0
  /\ exitCode = "none" /\ reported = "" /\ trace = <<>>

BitsIdle ==
  /\ bt = 0 /\ bt0 = 0 /\ ret = NoCall
  /\ buf = <<>> /\ buf0 = <<>> /\ len = 0
  /\ par = <<>> /\ par0 = <<>> /\ calls = <<"idle">>

CrcIdle ==
  /\ mem = <<>> /\ mem0 = <<>> /\ uiLenArg = 0 /\ uiLen = <<0, 0>>
  /\ pbtData = 0 /\ wCrc = 0 /\ cpc = "idle"
  /\ reads = {} /\ writes = {} /\ oob = 0

(***************************************************************************)
(* SpecBits: the mirror and parity functions on bounded inputs.            *)
(***************************************************************************)
\* sequences over S of length 0..n
SeqsUpTo(S, n) == UNION {[1..k -> S] : k \in 0..n}

\* what the parity buffer holds before the call
ParFill == {0, 238}

BitsInit ==
  /\ MainIdle /\ CrcIdle
  /\ calls = <<>> /\ ret = NoCall
  /\ \/ \* one byte, every value, for mirror() and oddparity()
        /\ bt \in Byte /\ buf = <<>> /\ len = 0 /\ par = <<>>
     \/ \* a one-byte buffer of every value
        /\ bt = 0 /\ buf \in [1..1 -> Byte] /\ len \in 0..1
        /\ \E f \in ParFill : par = <<f>>
     \/ \* longer buffers over ByteSample, uiLen up to the buffer's length
        /\ bt = 0 /\ buf \in SeqsUpTo(ByteSample, MaxBufLen)
        /\ len \in 0..Len(buf)
        /\ \E f \in ParFill : par = [i \in 1..Len(buf) |-> f]
  /\ bt0 = bt /\ buf0 = buf /\ par0 = par

\* bt = mirror(bt)
CallMirror ==
  /\ Len(calls) < MaxCalls /\ buf = <<>>
  /\ bt' = mirror(bt)
  /\ calls' = Append(calls, "mirror")
  /\ UNCHANGED <<bt0, ret, buf, buf0, len, par, par0, mainVars, crcVars>>

\* oddparity(bt)
CallOddparity ==
  /\ Len(calls) < MaxCalls /\ buf = <<>>
  /\ ret' = [arg |-> bt, val |-> oddparity(bt), called |-> TRUE]
  /\ calls' = Append(calls, "oddparity")
  /\ UNCHANGED <<bt, bt0, buf, buf0, len, par, par0, mainVars, crcVars>>

\* mirror_bytes(buf, len)
CallMirrorBytes ==
  /\ Len(calls) < MaxCalls /\ buf # <<>>
  /\ buf' = mirror_bytes(buf, len)
  /\ calls' = Append(calls, "mirror_bytes")
  /\ UNCHANGED <<bt, bt0, ret, buf0, len, par, par0, mainVars, crcVars>>

\* oddparity_bytes(buf, len, par)
CallOddparityBytes ==
  /\ Len(calls) < MaxCalls /\ buf # <<>>
  /\ par' = oddparity_bytes(buf, len, par)
  /\ calls' = Append(calls, "oddparity_bytes")
  /\ UNCHANGED <<bt, bt0, ret, buf, buf0, len, par0, mainVars, crcVars>>

BitsNext ==
  \/ CallMirror
  \/ CallOddparity
  \/ CallMirrorBytes
  \/ CallOddparityBytes

SpecBits == BitsInit /\ [][BitsNext]_vars

(***************************************************************************)
(* SpecCrc: append_iso14443a_crc(pbtData, uiLen), one action per pass of   *)
(* the do-while body and one for the two stores after it.                  *)
(***************************************************************************)
\* room the caller's array has after the two CRC bytes
TailSlack == {0, 1}
\* what the array holds after the data before the call
TailFill == {0, 238}

CrcInit ==
  /\ MainIdle /\ BitsIdle
  /\ \E data \in SeqsUpTo(ByteSample, MaxCrcLen) \cup [1..1 -> Byte] :
       \E slack \in TailSlack, fill \in TailFill :
         /\ uiLenArg = Len(data)
         /\ mem = data \o [i \in 1..(2 + slack) |-> fill]
  /\ mem0 = mem
  /\ uiLen = <<0, uiLenArg>>
  /\ pbtData = 0
  /\ wCrc = wCrcInit
  /\ cpc = "loop"
  /\ reads = {} /\ writes = {} /\ oob = 0

\* after the body: while (--uiLen)
LoopExit(u) == IF Dec32(u) # <<0, 0>> THEN "loop" ELSE "tail"

\* one pass of the body, *pbtData inside the array
CrcLoop ==
  /\ cpc = "loop" /\ pbtData < Len(mem)
  /\ wCrc' = CrcByte(wCrc, mem[pbtData + 1])
  /\ reads' = reads \cup {pbtData}
  /\ pbtData' = pbtData + 1
  /\ uiLen' = Dec32(uiLen)
  /\ cpc' = LoopExit(uiLen)
  /\ UNCHANGED <<mem, mem0, uiLenArg, writes, oob, mainVars, bitsVars>>

\* one pass of the body, *pbtData past the end of the array: the read is
\* undefined, it faults or yields some byte
CrcLoopOob ==
  /\ cpc = "loop" /\ pbtData >= Len(mem)
  /\ reads' = reads \cup {pbtData}
  /\ \/ /\ cpc' = "fault"
        /\ UNCHANGED <<wCrc, pbtData, uiLen, oob>>
     \/ /\ oob < MaxOob
        /\ \E b \in ByteSample : wCrc' = CrcByte(wCrc, b)
        /\ pbtData' = pbtData + 1
        /\ uiLen' = Dec32(uiLen)
        /\ cpc' = LoopExit(uiLen)
        /\ oob' = oob + 1
  /\ UNCHANGED <<mem, mem0, uiLenArg, writes, mainVars, bitsVars>>

\* *pbtData++ = (byte)(wCrc & 0xFF); *pbtData = (byte)((wCrc >> 8) & 0xFF);
CrcTail ==
  /\ cpc = "tail"
  /\ writes' = writes \cup {pbtData, pbtData + 1}
  /\ IF pbtData + 1 < Len(mem)
       THEN /\ mem' = [mem EXCEPT ![pbtData + 1] = wCrc % 256,
                                  ![pbtData + 2] = Shr(wCrc, 8) % 256]
            /\ pbtData' = pbtData + 1
            /\ cpc' = "done"
       ELSE \* a store past the end of the array
            /\ cpc' = "fault"
            /\ UNCHANGED <<mem, pbtData>>
  /\ UNCHANGED <<mem0, uiLenArg, uiLen, wCrc, reads, oob, mainVars, bitsVars>>

CrcNext ==
  \/ CrcLoop
  \/ CrcLoopOob
  \/ CrcTail

SpecCrc == CrcInit /\ [][CrcNext]_vars

(***************************************************************************)
(* nfc-emulate-uid.c: the reply arrays.                                    *)
(***************************************************************************)
abtAtqa == <<4, 0>>
abtUidBccDefault == <<222, 173, 190, 175, 98>>     \* DE AD BE AF 62
\* a bug: the CRC bytes of the SAK stored high byte first
abtSak_swapped == <<8, 221, 182, 0, 0, 0, 0, 0, 0>>
abtSak == <<8, 182, 221, 0, 0, 0, 0, 0, 0>>        \* byte_t abtSak[9] = { 0x08, 0xb6, 0xdd }

(***************************************************************************)
(* The command line.  An argument is a sequence of characters.             *)
(***************************************************************************)
OptHelp  == <<"-", "h">>
OptQuiet == <<"-", "q">>
OptOther == <<"-", "x">>
UidArgs ==
  { <<"D", "E", "A", "D", "B", "E", "A", "F">>,
    <<"0", "1", "0", "2", "0", "3", "0", "4">>,
    <<"f", "f", "F", "F", "0", "0", "a", "5">>,
    <<"-", "1", "0", "x", " ", "7", "z", "Z">>,
    <<"1", "g", "+", "2", " ", "G", "0", "X">> }
ArgSample == {OptHelp, OptQuiet, OptOther} \cup UidArgs
\* arguments after argv[0]
MaxArgs == 2

HexDigits ==
  [c \in {"0", "1", "2", "3", "4", "5", "6", "7", "8", "9",
          "a", "b", "c", "d", "e", "f", "A", "B", "C", "D", "E", "F"} |->
     CASE c = "0" -> 0 [] c = "1" -> 1 [] c = "2" -> 2 [] c = "3" -> 3
       [] c = "4" -> 4 [] c = "5" -> 5 [] c = "6" -> 6 [] c = "7" -> 7
       [] c = "8" -> 8 [] c = "9" -> 9
       [] c \in {"a", "A"} -> 10 [] c \in {"b", "B"} -> 11
       [] c \in {"c", "C"} -> 12 [] c \in {"d", "D"} -> 13
       [] c \in {"e", "E"} -> 14 [] c \in {"f", "F"} -> 15]
IsHex(c) == c \in DOMAIN HexDigits

\* the character at position i (from 1) of the NUL-terminated string s
At(s, i) == IF i <= Len(s) THEN s[i] ELSE "NUL"

RECURSIVE SkipSpace(_, _)
SkipSpace(s, i) == IF At(s, i) = " " THEN SkipSpace(s, i + 1) ELSE i

RECURSIVE HexRun(_, _, _)
HexRun(s, i, v) ==
  IF IsHex(At(s, i)) THEN HexRun(s, i + 1, 16 * v + HexDigits[s[i]]) ELSE v

\* strtol(s, NULL, 16): blanks, an optional sign, an optional 0x, then the
\* hexadecimal digits up to the first other character; 0 if there are none
strtol16(s) ==
  LET i1 == SkipSpace(s, 1)
      i2 == IF At(s, i1) \in {"-", "+"} THEN i1 + 1 ELSE i1
      i3 == IF At(s, i2) = "0" /\ At(s, i2 + 1) \in {"x", "X"} /\ IsHex(At(s, i2 + 2))
              THEN i2 + 2 ELSE i2
      v  == HexRun(s, i3, 0)
  IN  IF At(s, i1) = "-" THEN 0 - v ELSE v

\* (byte_t) of a long
ByteOfLong(v) == IF v >= 0 THEN v % 256 ELSE (256 - ((0 - v) % 256)) % 256

\* for (i = 0; i < 4; ++i) { memcpy; abtUidBcc[i] = strtol; abtUidBcc[4] ^= abtUidBcc[i]; }
RECURSIVE UidLoop(_, _, _)
UidLoop(a, u, i) ==
  IF i = 4 THEN u
  ELSE LET abtTmp == <<a[2 * i + 1], a[2 * i + 2]>>
           b == ByteOfLong(strtol16(abtTmp))
       IN  UidLoop(a, [u EXCEPT ![i + 1] = b, ![5] = Xor(u[5], b)], i + 1)

\* a bug: abtUidBcc[4] is not cleared before the loop
ParseUid_noreset(a, u) == UidLoop(a, u, 0)

\* abtUidBcc after the UID argument a
ParseUid(a, u) == UidLoop(a, [u EXCEPT ![5] = 0], 0)

\* the for loop over argv, from argument k on; st = [quiet, uid, exit, msg]
RECURSIVE ParseFrom(_, _, _)
ParseFrom(args, k, st) ==
  IF k > Len(args) THEN st
  ELSE IF args[k] = OptHelp
    THEN [st EXCEPT !.exit = "EXIT_SUCCESS"]
  ELSE IF args[k] = OptQuiet
    THEN ParseFrom(args, k + 1, [st EXCEPT !.quiet = TRUE])
  ELSE IF k = Len(args) /\ Len(args[k]) = 8
    THEN ParseFrom(args, k + 1, [st EXCEPT !.uid = ParseUid(args[k], st.uid)])
  ELSE [st EXCEPT !.exit = "EXIT_FAILURE", !.msg = "is not supported option"]

(***************************************************************************)
(* Spec: main.                                                             *)
(***************************************************************************)
\* what an uninitialised szTxBits may hold
Indeterminate == {0, 16}

\* bit lengths and fill bytes of the frames the initiator sends
FrameBits == {7, 8, 16, 72, 73}
FrameFill == {38, 147}
\* bit lengths of the command nfc_target_init hands back
InitBits == {7, 72}
Frame(bits, fill) == [i \in 1..((bits + 7) \div 8) |-> fill]

Event(kind, bits, data) == [kind |-> kind, bits |-> bits, data |-> data]

\* receives of the loop so far, failed ones included
Receives == Cardinality({i \in 1..Len(trace) : trace[i].kind \in {"rx", "rxfail"}})

Init ==
  /\ BitsIdle /\ CrcIdle
  /\ argv \in SeqsUpTo(ArgSample, MaxArgs)
  /\ pc = "args"
  /\ quiet_output = FALSE
  /\ abtUidBcc = abtUidBccDefault
  /\ abtRecv = <<>> /\ szRecvBits = 0
  /\ pbtTx = "NULL"
  /\ szTxBits \in Indeterminate
  /\ exitCode = "none" /\ reported = ""
  /\ trace = <<>>

\* lines 459-480
ParseArgs ==
  /\ pc = "args"
  /\ LET st == ParseFrom(argv, 1, [quiet |-> FALSE, uid |-> abtUidBcc,
                                   exit |-> "none", msg |-> ""])
     IN  /\ quiet_output' = st.quiet
         /\ abtUidBcc' = st.uid
         /\ exitCode' = st.exit
         /\ reported' = st.msg
         /\ pc' = IF st.exit = "none" THEN "setup" ELSE "exit"
  /\ UNCHANGED <<argv, abtRecv, szRecvBits, pbtTx, szTxBits, trace, bitsVars, crcVars>>

\* lines 483-517: nfc_connect, nfc_target_init, nfc_configure
Setup ==
  /\ pc = "setup"
  /\ \/ \* nfc_connect returns NULL
        /\ reported' = "Unable to connect to NFC device"
        /\ exitCode' = "EXIT_FAILURE" /\ pc' = "exit"
        /\ UNCHANGED <<abtRecv, szRecvBits, trace>>
     \/ \* nfc_target_init fails
        /\ reported' = "Could not come out of auto-emulation, no command was received"
        /\ exitCode' = "EXIT_FAILURE" /\ pc' = "exit"
        /\ UNCHANGED <<abtRecv, szRecvBits, trace>>
     \/ \* nfc_target_init stores the initiator's command, then nfc_configure fails or not
        \E bits \in InitBits, configured \in BOOLEAN :
          /\ abtRecv' = Frame(bits, 38) /\ szRecvBits' = bits
          /\ trace' = Append(trace, Event("init_rx", bits, Frame(bits, 38)))
          /\ IF configured
               THEN pc' = "recv" /\ UNCHANGED <<reported, exitCode>>
               ELSE /\ reported' = "nfc_configure"
                    /\ exitCode' = "EXIT_FAILURE" /\ pc' = "exit"
  /\ UNCHANGED <<argv, quiet_output, abtUidBcc, pbtTx, szTxBits, bitsVars, crcVars>>

\* a bug: the default case leaves szTxBits as it was
SwitchRecvBits_stale(bits, tx, txBits) ==
  CASE bits = 7  -> [pbtTx |-> "abtAtqa", szTxBits |-> 16]
    [] bits = 16 -> [pbtTx |-> "abtUidBcc", szTxBits |-> 40]
    [] bits = 72 -> [pbtTx |-> "abtSak", szTxBits |-> 24]
    [] OTHER     -> [pbtTx |-> tx, szTxBits |-> txBits]

\* a bug: two cases of the switch exchanged
SwitchRecvBits_swapped(bits, tx, txBits) ==
  CASE bits = 7  -> [pbtTx |-> "abtUidBcc", szTxBits |-> 40]
    [] bits = 16 -> [pbtTx |-> "abtAtqa", szTxBits |-> 16]
    [] bits = 72 -> [pbtTx |-> "abtSak", szTxBits |-> 24]
    [] OTHER     -> [pbtTx |-> tx, szTxBits |-> 0]

\* switch (szRecvBits): pbtTx and szTxBits after it
SwitchRecvBits(bits, tx, txBits) ==
  CASE bits = 7  -> [pbtTx |-> "abtAtqa", szTxBits |-> 16]
    [] bits = 16 -> [pbtTx |-> "abtUidBcc", szTxBits |-> 40]
    [] bits = 72 -> [pbtTx |-> "abtSak", szTxBits |-> 24]
    [] OTHER     -> [pbtTx |-> tx, szTxBits |-> 0]

\* the array a pbtTx value points to
Deref(p) ==
  CASE p = "abtAtqa" -> abtAtqa
    [] p = "abtUidBcc" -> abtUidBcc
    [] p = "abtSak" -> abtSak

\* the bytes nfc_target_send_bits(pnd, p, bits, NULL) puts on the air
TxData(p, bits) == SubSeq(Deref(p), 1, (bits + 7) \div 8)

\* lines 521-552: one nfc_target_receive_bits, then the switch and the test of szTxBits
Receive ==
  /\ pc = "recv" /\ Receives < MaxFrames
  /\ \/ \* the receive fails: the body of the if is skipped
        /\ trace' = Append(trace, Event("rxfail", 0, <<>>))
        /\ UNCHANGED <<pc, abtRecv, szRecvBits, pbtTx, szTxBits>>
     \/ \E bits \in FrameBits, fill \in FrameFill :
          LET sw == SwitchRecvBits(bits, pbtTx, szTxBits)
          IN  /\ abtRecv' = Frame(bits, fill) /\ szRecvBits' = bits
              /\ trace' = Append(trace, Event("rx", bits, Frame(bits, fill)))
              /\ pbtTx' = sw.pbtTx /\ szTxBits' = sw.szTxBits
              /\ pc' = IF sw.szTxBits # 0 THEN "send" ELSE "recv"
  /\ UNCHANGED <<argv, quiet_output, abtUidBcc, exitCode, reported, bitsVars, crcVars>>

\* a bug: a failed send is tried again
OnSendFailure_retry == [pc |-> "send", exitCode |-> "none", reported |-> ""]

\* nfc_perror (pnd, "nfc_target_send_bits"); exit (EXIT_FAILURE);
OnSendFailure ==
  [pc |-> "exit", exitCode |-> "EXIT_FAILURE", reported |-> "nfc_target_send_bits"]

\* a bug: after a send the loop sends again instead of receiving
AfterSend_again == "send"

\* after a send that worked the loop is back at nfc_target_receive_bits
AfterSend == "recv"

\* lines 554-561: nfc_target_send_bits
Send ==
  /\ pc = "send"
  /\ IF pbtTx = "NULL"
       THEN \* a null pointer handed to the library
            /\ pc' = "crash"
            /\ UNCHANGED <<trace, exitCode, reported>>
       ELSE \/ /\ trace' = Append(trace, Event("tx", szTxBits, TxData(pbtTx, szTxBits)))
               /\ pc' = AfterSend
               /\ UNCHANGED <<exitCode, reported>>
            \/ /\ trace' = Append(trace, Event("txfail", szTxBits, TxData(pbtTx, szTxBits)))
               /\ pc' = OnSendFailure.pc
               /\ exitCode' = OnSendFailure.exitCode
               /\ reported' = OnSendFailure.reported
  /\ UNCHANGED <<argv, quiet_output, abtUidBcc, abtRecv, szRecvBits, pbtTx, szTxBits,
                 bitsVars, crcVars>>

Next ==
  \/ ParseArgs
  \/ Setup
  \/ Receive
  \/ Send

Spec == Init /\ [][Next]_vars

(***************************************************************************)
(* Properties of the responder (Spec).                                     *)
(***************************************************************************)
Recognized == {7, 16, 72}

\* the reply the protocol table gives for a recognized bit length
ReplyFor(bits) ==
  CASE bits = 7  -> Event("tx", 16, <<4, 0>>)
    [] bits = 16 -> Event("tx", 40, abtUidBcc)
    [] bits = 72 -> Event("tx", 24, SubSeq(abtSak, 1, 3))

IsSend(e) == e.kind \in {"tx", "txfail"}
IsReceive(e) == e.kind \in {"rx", "rxfail"}
SameFrame(e, r) == e.bits = r.bits /\ e.data = r.data

\* C1: every received frame of 7, 16 or 72 bits is answered, whatever its bytes
\* and whatever came before, with ATQA at 16 bits, UID+BCC at 40 bits or
\* SAK+CRC-A at 24 bits respectively: the frame handed to the transport next
\* is that reply, and while it is still pending pbtTx and szTxBits select it.
C1_ReplyByLength ==
  \A i \in 1..Len(trace) :
    (trace[i].kind = "rx" /\ trace[i].bits \in Recognized) =>
      IF i < Len(trace)
        THEN IsSend(trace[i + 1]) /\ SameFrame(trace[i + 1], ReplyFor(trace[i].bits))
        ELSE /\ pc = "send"
             /\ szTxBits = ReplyFor(trace[i].bits).bits
             /\ TxData(pbtTx, szTxBits) = ReplyFor(trace[i].bits).data

\* C1 witness: frames of 7, 16 and 72 bits with different contents, each answered
C1_Witness ==
  /\ Len(trace) = 7
  /\ trace[2] = Event("rx", 7, <<147>>) /\ trace[3].kind = "tx"
  /\ trace[4] = Event("rx", 16, <<38, 38>>) /\ trace[5].kind = "tx"
  /\ trace[6].kind = "rx" /\ trace[6].bits = 72 /\ trace[7].kind = "tx"
  /\ trace[7].bits = 24

\* C2: a received frame whose length is not 7, 16 or 72 bits is followed by no
\* transmission: the next transport event is another receive, and until then
\* the loop is at its receive with the session still running.
C2_UnknownLengthIgnored ==
  \A i \in 1..Len(trace) :
    (trace[i].kind = "rx" /\ trace[i].bits \notin Recognized) =>
      IF i < Len(trace)
        THEN IsReceive(trace[i + 1])
        ELSE pc = "recv" /\ exitCode = "none" /\ szTxBits = 0

\* C2 witness: an answered frame, then an 8-bit frame, then the next receive
C2_Witness ==
  \E i \in 1..Len(trace) :
    /\ i + 2 <= Len(trace)
    /\ trace[i].kind = "tx"
    /\ trace[i + 1].kind = "rx" /\ trace[i + 1].bits = 8
    /\ trace[i + 2].kind = "rx"
    /\ pc = "send"

HasUidArg == Len(argv) >= 1 /\ Len(argv[Len(argv)]) = 8
AllHex(a) == \A k \in 1..Len(a) : IsHex(a[k])

\* C3: abtUidBcc is always four UID bytes followed by their exclusive-or; the
\* reply to every 16-bit frame is exactly abtUidBcc; without a UID argument it
\* is DE AD BE AF 62, and with a UID argument of 8 hexadecimal digits the four
\* UID bytes are the values of its digit pairs.
C3_UidBcc ==
  /\ Len(abtUidBcc) = 5
  /\ abtUidBcc[5] = Xor(Xor(abtUidBcc[1], abtUidBcc[2]), Xor(abtUidBcc[3], abtUidBcc[4]))
  /\ \A i \in 1..Len(trace) :
       (trace[i].kind = "rx" /\ trace[i].bits = 16 /\ i < Len(trace)) =>
         /\ trace[i + 1].bits = 40
         /\ trace[i + 1].data = abtUidBcc
         /\ ~HasUidArg => trace[i + 1].data = <<222, 173, 190, 175, 98>>
  /\ (trace # <<>> /\ HasUidArg /\ AllHex(argv[Len(argv)])) =>
       \A k \in 1..4 :
         abtUidBcc[k] = 16 * HexDigits[argv[Len(argv)][2 * k - 1]]
                        + HexDigits[argv[Len(argv)][2 * k]]

\* C3 witness: a UID from the command line sent in reply to a 16-bit frame
C3_Witness ==
  /\ HasUidArg
  /\ \E i \in 1..Len(trace) :
       /\ i < Len(trace)
       /\ trace[i].kind = "rx" /\ trace[i].bits = 16
       /\ trace[i + 1] = Event("tx", 40, <<1, 2, 3, 4, 4>>)

\* C4: the reply to a 72-bit frame is three bytes: the SAK byte abtSak[0], then
\* the two bytes append_iso14443a_crc stores after that one byte.
C4_SakCrc ==
  \A i \in 1..Len(trace) :
    (trace[i].kind = "rx" /\ trace[i].bits = 72 /\ i < Len(trace)) =>
      /\ trace[i + 1].bits = 24
      /\ trace[i + 1].data = append_iso14443a_crc(<<abtSak[1], 0, 0>>, 1)

\* C4 witness: a 72-bit frame answered
C4_Witness ==
  \E i \in 1..Len(trace) :
    /\ i < Len(trace)
    /\ trace[i].kind = "rx" /\ trace[i].bits = 72
    /\ trace[i + 1].kind = "tx" /\ Len(trace[i + 1].data) = 3

\* C6 as claimed: every transport failure, receive or transmit, is the last
\* event of the session, which has then exited with a report.
C6_AnyFailureTerminates ==
  \A i \in 1..Len(trace) :
    trace[i].kind \in {"rxfail", "txfail"} =>
      i = Len(trace) /\ pc = "exit" /\ exitCode = "EXIT_FAILURE" /\ reported # ""

\* C6 amended: a failed transmit is the last event of the session, which has
\* exited with EXIT_FAILURE after nfc_perror; a failed receive is followed by
\* another receive, with nothing reported, nothing sent and the session running.
C6_SendFailureTerminates ==
  \A i \in 1..Len(trace) :
    /\ trace[i].kind = "txfail" =>
         /\ i = Len(trace)
         /\ pc = "exit" /\ exitCode = "EXIT_FAILURE"
         /\ reported = "nfc_target_send_bits"
    /\ trace[i].kind = "rxfail" =>
         IF i < Len(trace)
           THEN IsReceive(trace[i + 1])
           ELSE pc = "recv" /\ exitCode = "none" /\ reported = ""

\* C6 witness: a failed receive, later a failed transmit
C6_Witness ==
  /\ Len(trace) >= 3
  /\ \E i \in 1..Len(trace) : trace[i].kind = "rxfail"
  /\ trace[Len(trace)].kind = "txfail"
  /\ pc = "exit"

\* C7: every frame handed to the transport for sending comes directly after a
\* received frame of the loop and is the reply to that frame; while a reply
\* is pending the last event is the frame it answers.
C7_ReplyFollowsItsFrame ==
  /\ \A i \in 1..Len(trace) :
       IsSend(trace[i]) =>
         /\ i > 1
         /\ trace[i - 1].kind = "rx"
         /\ trace[i - 1].bits \in Recognized
         /\ SameFrame(trace[i], ReplyFor(trace[i - 1].bits))
  /\ pc = "send" => (trace # <<>> /\ trace[Len(trace)].kind = "rx")

\* C7 witness: two frames received and answered in turn
C7_Witness ==
  \E i \in 1..Len(trace) :
    /\ i + 3 <= Len(trace)
    /\ trace[i].kind = "rx" /\ trace[i].bits = 7 /\ trace[i + 1].kind = "tx"
    /\ trace[i + 2].kind = "rx" /\ trace[i + 2].bits = 16 /\ trace[i + 3].kind = "tx"

(***************************************************************************)
(* Properties of the mirror and parity functions (SpecBits).               *)
(***************************************************************************)
NumCalls(f) == Cardinality({i \in 1..Len(calls) : calls[i] = f})

\* b with its low k bits in reversed order
RECURSIVE ReverseBits(_, _)
ReverseBits(b, k) ==
  IF k = 0 THEN 0 ELSE (b % 2) * Pow2(k - 1) + ReverseBits(b \div 2, k - 1)

RECURSIVE PopCount(_)
PopCount(b) == IF b = 0 THEN 0 ELSE (b % 2) + PopCount(b \div 2)

\* C8: after an odd number of mirror() calls the byte is the original with its
\* 8 bits reversed, after an even number it is the original; after an odd
\* number of mirror_bytes calls the first uiLen bytes are bit-reversed and the
\* rest untouched, after an even number the buffer is the original.
C8_MirrorInvolution ==
  /\ bt = IF NumCalls("mirror") % 2 = 1 THEN ReverseBits(bt0, 8) ELSE bt0
  /\ Len(buf) = Len(buf0)
  /\ \A i \in 1..Len(buf) :
       buf[i] = IF i <= len /\ NumCalls("mirror_bytes") % 2 = 1
                  THEN ReverseBits(buf0[i], 8) ELSE buf0[i]

\* C8 witness: mirror_bytes applied twice to three bytes
C8_Witness ==
  /\ calls = <<"mirror_bytes", "mirror_bytes">>
  /\ len = 3 /\ buf0 = <<1, 165, 128>> /\ buf = buf0

\* C9: oddparity(b) is 1 exactly when b has an even number of set bits; right
\* after oddparity_bytes the first uiLen parity slots hold the odd parity of
\* the matching data bytes and every other slot is as it was before.
C9_OddParity ==
  /\ ret.called => ret.val = (IF PopCount(ret.arg) % 2 = 0 THEN 1 ELSE 0)
  /\ Len(par) = Len(par0)
  /\ NumCalls("oddparity_bytes") = 0 => par = par0
  /\ (calls # <<>> /\ calls[Len(calls)] = "oddparity_bytes") =>
       \A i \in 1..Len(par) :
         par[i] = IF i <= len
                    THEN (IF PopCount(buf[i]) % 2 = 0 THEN 1 ELSE 0)
                    ELSE par0[i]

\* C9 witness: oddparity_bytes on the first two of three bytes
C9_Witness ==
  /\ calls = <<"oddparity_bytes">>
  /\ len = 2 /\ buf = <<1, 165, 128>> /\ par0 = <<238, 238, 238>>
  /\ par = <<0, 1, 238>>

(***************************************************************************)
(* Properties of append_iso14443a_crc (SpecCrc).                           *)
(***************************************************************************)
\* eight steps of the bit-serial division by the reflected polynomial 0x8408
RECURSIVE ShiftOut(_, _)
ShiftOut(crc, k) ==
  IF k = 0 THEN crc
  ELSE ShiftOut(IF crc % 2 = 1 THEN Xor(crc \div 2, 33800) ELSE crc \div 2, k - 1)

\* the bit-serial CRC of data[i..n], continued from crc
RECURSIVE SerialCrc(_, _, _, _)
SerialCrc(data, i, n, crc) ==
  IF i > n THEN crc
  ELSE SerialCrc(data, i + 1, n, ShiftOut(Xor(crc, data[i]), 8))

\* C5: when the function returns for uiLen >= 1, offsets uiLen and uiLen+1 hold
\* the low and the high byte of the bit-serial reflected CRC-16 (polynomial
\* 0x8408, initial value 0x6363) of the uiLen data bytes, and every other
\* byte of the array is unchanged.
C5_CrcA ==
  (cpc = "done" /\ uiLenArg >= 1) =>
    LET c == SerialCrc(mem0, 1, uiLenArg, 25443)
    IN  /\ Len(mem) = Len(mem0)
        /\ mem[uiLenArg + 1] = c % 256
        /\ mem[uiLenArg + 2] = c \div 256
        /\ \A i \in 1..Len(mem) :
             i \notin {uiLenArg + 1, uiLenArg + 2} => mem[i] = mem0[i]

\* C5 witness: the function has returned for three data bytes
C5_Witness ==
  /\ cpc = "done" /\ uiLenArg = 3
  /\ SubSeq(mem0, 1, 3) = <<1, 165, 255>>
  /\ reads = {0, 1, 2}

\* C10 as claimed: for every uiLen >= 0 the function reads only offsets below
\* uiLen, writes only offsets uiLen and uiLen+1, and never faults.
C10_AccessWithinLen ==
  /\ reads \subseteq 0..(uiLenArg - 1)
  /\ writes \subseteq {uiLenArg, uiLenArg + 1}
  /\ cpc # "fault"

\* C10 for uiLen >= 1 only: the reads are below uiLen, the writes are at uiLen
\* and uiLen+1, nothing faults, and on return exactly the data bytes were read.
C10_AccessWithinLenFrom1 ==
  uiLenArg >= 1 =>
    /\ reads \subseteq 0..(uiLenArg - 1)
    /\ writes \subseteq {uiLenArg, uiLenArg + 1}
    /\ cpc # "fault"
    /\ cpc = "done" => reads = 0..(uiLenArg - 1) /\ writes = {uiLenArg, uiLenArg + 1}

====
